---- MODULE Spec2Model ----
(***************************************************************************)
(* Model of OsRebuildArgs::rebuild (src/src/nixos.rs), the NixOS rebuild   *)
(* workflow of nh, on the Linux-family target (cfg(target_os = "linux")).  *)
(* One action per step of the function; every external command that the    *)
(* function hands to the command executor is appended to `log`.            *)
(***************************************************************************)
EXTENDS Naturals, Sequences, FiniteSets, TLC

VARIABLES
    req,                    \* the OsRebuildArgs and the OsRebuildType (immutable)
    is_root,                \* nix::unistd::Uid::effective().is_root()
    pc,                     \* position in rebuild()
    result,                 \* "running", or how rebuild() returned
    use_sudo,               \* let use_sudo (l.33)
    elevation_required,     \* let elevation_required (l.70)
    out_path,               \* let out_path (l.48): "unset", "link" or "temp"
    tempdir,                \* the tempfile::TempDir: "none", "held", "released"
    nix_version,            \* let nix_version (l.93)
    conflict,               \* let status (l.97), the captured listing
    current_specialisation, \* let current_specialisation (l.165)
    target_specialisation,  \* let target_specialisation (l.167)
    target_profile,         \* let target_profile (l.175)
    profile_exists,         \* what try_exists() (l.180) answered
    confirmation,           \* let confirmation (l.195): "unasked" or the answer
    can_write,              \* let can_write (l.222)
    flake_metadata,         \* what fs::metadata(&self.flakeref) (l.59) answered
    profile_metadata,       \* what fs::metadata(SYSTEM_PROFILE) (l.218) answered
    log                     \* the commands handed to exec()/exec_capture(), in order

vars == <<req, is_root, pc, result, use_sudo, elevation_required, out_path,
          tempdir, nix_version, conflict, current_specialisation,
          target_specialisation, target_profile, profile_exists, confirmation,
          can_write, flake_metadata, profile_metadata, log>>

----------------------------------------------------------------------------
(* Bounds *)

\* longest captured conflict listing, in lines
MaxConflictLines == 2

----------------------------------------------------------------------------
(* Values *)

\* Option<T>: None is the empty sequence, Some(x) the one-element sequence
None == <<>>
Some(x) == <<x>>
IsSome(o) == Len(o) = 1
Unwrap(o) == o[1]

\* Option::or_else
OrElse(o, other) == IF IsSome(o) THEN o ELSE other

\* a path is the sequence of its components; PathBuf::join appends one
Join(p, c) == Append(p, c)
\* a command-line word that is not a path
Word(s) == <<s>>

SYSTEM_PROFILE == <<"nix", "var", "nix", "profiles", "system">>
CURRENT_PROFILE == <<"run", "current-system">>
SPEC_LOCATION == <<"etc", "specialisation">>

FLAKEREF == <<"flake">>
LOCK_FILE == "flake.lock"
OTHER_FILE == "other.nix"

Modes == {"Build", "Test", "Boot", "Switch"}

\* the OsRebuildArgs fields rebuild() reads; an Option<PathBuf> out_link is
\* modelled by whether it is Some
Requests ==
    [mode : Modes, dry : BOOLEAN, ask : BOOLEAN, pull : BOOLEAN,
     update : BOOLEAN, bypass_root_check : BOOLEAN,
     no_specialisation : BOOLEAN, specialisation : {None, Some("req")},
     out_link : BOOLEAN]

\* contents std::fs::read_to_string(SPEC_LOCATION) can return: Err (None after
\* .ok()), an empty file, a file naming the active specialisation
MarkerReads == {None, Some(""), Some("cur")}

\* git diff --name-only prints one file name per line
RECURSIVE Listings(_)
Listings(n) ==
    IF n = 0 THEN {<<>>}
    ELSE Listings(n - 1) \cup
         {Append(l, f) : l \in {x \in Listings(n - 1) : Len(x) = n - 1},
                         f \in {LOCK_FILE, OTHER_FILE}}

\* what get_nix_version() can return: Err, or a version string that
\* compare_semver can or cannot parse
NixVersions ==
    {[parses |-> FALSE, v |-> <<0, 0, 0>>],
     [parses |-> TRUE, v |-> <<2, 18, 9>>],
     [parses |-> TRUE, v |-> <<2, 19, 0>>],
     [parses |-> TRUE, v |-> <<2, 24, 1>>]}

THRESHOLD == <<2, 19, 0>>

\* util::compare_semver: Err(()) when a side does not parse, else the Ordering
compare_semver(a, b) ==
    IF ~a.parses THEN "Err"
    ELSE LET x == a.v
         IN  IF x[1] # b[1] THEN (IF x[1] < b[1] THEN "Less" ELSE "Greater")
             ELSE IF x[2] # b[2] THEN (IF x[2] < b[2] THEN "Less" ELSE "Greater")
             ELSE IF x[3] # b[3] THEN (IF x[3] < b[3] THEN "Less" ELSE "Greater")
             ELSE "Equal"

----------------------------------------------------------------------------
(* The command executor (crate::commands) *)

\* CommandBuilder::default(): nothing elevated, nothing dry
CommandBuilderDefault ==
    [name |-> "", root |-> FALSE, dry |-> FALSE, args |-> <<>>]

\* Command::exec: a dry command is logged and not spawned
Spawned(c) == ~c.dry

\* the outcomes of exec(): a command that is not spawned cannot fail
ExecOutcomes(c) == IF Spawned(c) THEN BOOLEAN ELSE {TRUE}

\* exec_capture(): Some(stdout) of a spawned command, None of a dry one
CaptureOutcomes(c) ==
    IF Spawned(c) THEN {Some(l) : l \in Listings(MaxConflictLines)} ELSE {None}

\* the record of one exec(): the command, whether it was spawned, how it ended
Logged(c, ok) == [name |-> c.name, root |-> c.root, spawned |-> Spawned(c),
                  args |-> c.args, ok |-> ok]

----------------------------------------------------------------------------
(* Leaving rebuild(): every local is dropped, out_path among them.  Dropping *)
(* a (PathBuf, TempDir) removes the directory, dropping a PathBuf does not. *)

\* mutant of DropOutPath: the temporary directory is leaked
DropOutPathLeak(t) == t

DropOutPath(t) == IF t = "held" THEN "released" ELSE t

Return(res) ==
    /\ pc' = "done"
    /\ result' = res
    /\ tempdir' = DropOutPath(tempdir)

\* out_path.get_path()
GetPath == IF out_path = "link" THEN <<"out_link">> ELSE <<"nh-os", "result">>

----------------------------------------------------------------------------
TypeOK ==
    /\ req \in Requests
    /\ is_root \in BOOLEAN
    /\ result \in {"running", "Ok", "PolicyViolation", "HostnameErr",
                   "TempdirErr", "CommandFailure", "ToolchainPanic",
                   "ConflictPanic", "ExistsErr", "ConfirmErr", "MetadataErr"}
    /\ out_path \in {"unset", "link", "temp"}
    /\ tempdir \in {"none", "held", "released"}

Init ==
    /\ req \in Requests
    /\ is_root \in BOOLEAN
    /\ pc = "root_check"
    /\ result = "running"
    /\ use_sudo = FALSE
    /\ elevation_required = FALSE
    /\ out_path = "unset"
    /\ tempdir = "none"
    /\ nix_version = None
    /\ conflict = None
    /\ current_specialisation = None
    /\ confirmation = "unasked"
    /\ target_specialisation = None
    /\ target_profile = <<>>
    /\ profile_exists = "unknown"
    /\ can_write = FALSE
    /\ flake_metadata = "unread"
    /\ profile_metadata = "unread"
    /\ log = <<>>

\* the `?` after exec(): an Err leaves rebuild() at once, Ok goes on
Propagate(ok, next) ==
    IF ok
    THEN /\ pc' = next
         /\ UNCHANGED <<result, tempdir>>
    ELSE Return("CommandFailure")

\* .build()?.exec()? of command c, ending ok or not
Exec(c, ok, next) ==
    /\ log' = Append(log, Logged(c, ok))
    /\ Propagate(ok, next)

\* for the mutants below: exec() without its `?`, the run goes on after an Err
ExecUnchecked(c, ok, next) ==
    /\ log' = Append(log, Logged(c, ok))
    /\ pc' = next
    /\ UNCHANGED <<result, tempdir>>

\* mutant of Matches: the pattern test inverted
MatchesInverted(rebuild_type, variants) == rebuild_type \notin variants

\* l.189, 203, 217: matches!(rebuild_type, ..) and `if let A(_) | B(_) =`
Matches(rebuild_type, variants) == rebuild_type \in variants

\* mutant of RootRefused: the bypass flag read the wrong way round
RootRefusedOnBypass == req.bypass_root_check /\ is_root

\* l.33-41: root without bypass_root_check bails
RootRefused == ~req.bypass_root_check /\ is_root

\* mutant of UseSudo: the bypass branch elevates as well
UseSudoAlways == TRUE

\* l.33-41: the value of use_sudo when the root check passes
UseSudo == IF req.bypass_root_check THEN ~is_root ELSE TRUE

\* l.33-41: the root check
RootCheck ==
    /\ pc = "root_check"
    /\ IF RootRefused
       THEN /\ Return("PolicyViolation")
            /\ UNCHANGED use_sudo
       ELSE /\ use_sudo' = UseSudo
            /\ pc' = "hostname"
            /\ UNCHANGED <<result, tempdir>>
    /\ UNCHANGED <<req, is_root, flake_metadata, profile_metadata,
                   current_specialisation, confirmation,
                   elevation_required, out_path, nix_version,
                   conflict, target_specialisation, target_profile,
                   profile_exists, can_write, log>>

\* l.43-46: self.hostname, or util::hostname()? which can fail
ResolveHostname ==
    /\ pc = "hostname"
    /\ \E given \in BOOLEAN, ok \in BOOLEAN :
          IF given \/ ok
          THEN /\ pc' = "out_path"
               /\ UNCHANGED <<result, tempdir>>
          ELSE Return("HostnameErr")
    /\ UNCHANGED <<req, is_root, flake_metadata, profile_metadata,
                   current_specialisation, confirmation,
                   use_sudo, elevation_required, out_path,
                   nix_version, conflict, target_specialisation,
                   target_profile, profile_exists, can_write, log>>

\* l.48-54: the out link, or "result" inside a fresh temporary directory
AllocOutPath ==
    /\ pc = "out_path"
    /\ IF req.out_link
       THEN /\ out_path' = "link"
            /\ pc' = "flake_owner"
            /\ UNCHANGED <<result, tempdir>>
       ELSE \E ok \in BOOLEAN :
               IF ok
               THEN /\ out_path' = "temp"
                    /\ tempdir' = "held"
                    /\ pc' = "flake_owner"
                    /\ UNCHANGED result
               ELSE /\ Return("TempdirErr")
                    /\ UNCHANGED out_path
    /\ UNCHANGED <<req, is_root, flake_metadata, profile_metadata,
                   current_specialisation, confirmation,
                   use_sudo, elevation_required, nix_version,
                   conflict, target_specialisation, target_profile,
                   profile_exists, can_write, log>>

\* mutant of flake_is_owned_by_root: an unreadable source counts as root's
flake_is_owned_by_root_or_unreadable(md) == md # "user"

\* l.59-65: fs::metadata(flakeref): owned by root, by someone else, or Err
flake_is_owned_by_root(md) == md = "root"

\* l.59-70
CheckFlakeOwner ==
    /\ pc = "flake_owner"
    /\ \E md \in {"root", "user", "Err"} :
          /\ flake_metadata' = md
          /\ elevation_required' = (use_sudo /\ flake_is_owned_by_root(md))
    /\ pc' = "pull"
    /\ UNCHANGED <<req, is_root, profile_metadata,
                   current_specialisation, confirmation,
                   result, use_sudo, out_path, tempdir,
                   nix_version, conflict, target_specialisation,
                   target_profile, profile_exists, can_write, log>>

\* l.73-76
PullCommand ==
    [CommandBuilderDefault EXCEPT
        !.name = "pull", !.root = elevation_required,
        !.args = <<Word("git"), Word("-C"), FLAKEREF, Word("pull")>>]

\* mutant of PullRequested: the pull no longer asks for the flag
PullAlways == TRUE

\* l.72
PullRequested == req.pull

\* l.72-79
Pull ==
    /\ pc = "pull"
    /\ IF PullRequested
       THEN /\ \E ok \in ExecOutcomes(PullCommand) : Exec(PullCommand, ok, "nix_version")
       ELSE /\ pc' = "nix_version"
            /\ UNCHANGED <<log, result, tempdir>>
    /\ UNCHANGED <<req, is_root, flake_metadata, profile_metadata,
                   current_specialisation, confirmation,
                   use_sudo, elevation_required, out_path,
                   nix_version, conflict, target_specialisation,
                   target_profile, profile_exists, can_write>>

\* l.91-95: get_nix_version(), whose Err panics
GetNixVersion ==
    /\ pc = "nix_version"
    /\ IF req.update
       THEN \/ /\ Return("ToolchainPanic")
               /\ UNCHANGED nix_version
            \/ \E v \in NixVersions :
                  /\ nix_version' = Some(v)
                  /\ pc' = "conflicts"
                  /\ UNCHANGED <<result, tempdir>>
       ELSE /\ pc' = "build"
            /\ UNCHANGED <<nix_version, result, tempdir>>
    /\ UNCHANGED <<req, is_root, flake_metadata, profile_metadata,
                   current_specialisation, confirmation,
                   use_sudo, elevation_required, out_path,
                   conflict, target_specialisation, target_profile,
                   profile_exists, can_write, log>>

\* l.97-106
ConflictsCommand ==
    [CommandBuilderDefault EXCEPT
        !.name = "conflicts",
        !.args = <<Word("git"), Word("-C"), FLAKEREF, Word("diff"),
                   Word("--name-only"), Word("--diff-filter=U")>>]

\* mutant of ConflictBranch: any listing that starts with flake.lock is reset
ConflictBranchPrefix(status) ==
    IF ~IsSome(status) THEN "proceed"
    ELSE IF Unwrap(status) = <<>> THEN "proceed"
    ELSE IF Unwrap(status)[1] = LOCK_FILE THEN "reset"
    ELSE "panic"

\* l.110-125: what the captured listing leads to.  The listing is compared as
\* a string: "flake.lock\n" is the one line flake.lock, "" is no line at all
ConflictBranch(status) ==
    IF ~IsSome(status) THEN "proceed"
    ELSE IF Unwrap(status) = <<LOCK_FILE>> THEN "reset"
    ELSE IF Unwrap(status) # <<>> THEN "panic"
    ELSE "proceed"

\* l.97-125
CheckConflicts ==
    /\ pc = "conflicts"
    /\ \/ /\ FALSE \in ExecOutcomes(ConflictsCommand)
          /\ Exec(ConflictsCommand, FALSE, "conflicts")
          /\ UNCHANGED conflict
       \/ \E status \in CaptureOutcomes(ConflictsCommand) :
             /\ log' = Append(log, Logged(ConflictsCommand, TRUE))
             /\ conflict' = status
             /\ IF ConflictBranch(status) = "panic"
                THEN Return("ConflictPanic")
                ELSE /\ pc' = IF ConflictBranch(status) = "reset"
                              THEN "reset" ELSE "update"
                     /\ UNCHANGED <<result, tempdir>>
    /\ UNCHANGED <<req, is_root, flake_metadata, profile_metadata,
                   current_specialisation, confirmation,
                   use_sudo, elevation_required, out_path,
                   nix_version, target_specialisation, target_profile,
                   profile_exists, can_write>>

\* l.112-114
ResetCommand ==
    [CommandBuilderDefault EXCEPT
        !.name = "reset",
        !.args = <<Word("git"), Word("-C"), FLAKEREF, Word("reset"),
                   Word(LOCK_FILE)>>]

\* l.112-116
ResetLock ==
    /\ pc = "reset"
    /\ \E ok \in ExecOutcomes(ResetCommand) : Exec(ResetCommand, ok, "checkout")
    /\ UNCHANGED <<req, is_root, flake_metadata, profile_metadata,
                   current_specialisation, confirmation,
                   use_sudo, elevation_required, out_path,
                   nix_version, conflict, target_specialisation,
                   target_profile, profile_exists, can_write>>

\* l.117-119
CheckoutCommand ==
    [CommandBuilderDefault EXCEPT
        !.name = "checkout",
        !.args = <<Word("git"), Word("-C"), FLAKEREF, Word("checkout"),
                   Word(LOCK_FILE)>>]

\* l.117-121
CheckoutLock ==
    /\ pc = "checkout"
    /\ \E ok \in ExecOutcomes(CheckoutCommand) : Exec(CheckoutCommand, ok, "update")
    /\ UNCHANGED <<req, is_root, flake_metadata, profile_metadata,
                   current_specialisation, confirmation,
                   use_sudo, elevation_required, out_path,
                   nix_version, conflict, target_specialisation,
                   target_profile, profile_exists, can_write>>

\* l.128-137: nix flake update [--flake] <flakeref>
update_args(version) ==
    <<Word("nix"), Word("flake"), Word("update")>>
    \o (IF compare_semver(version, THRESHOLD) = "Greater"
        THEN <<Word("--flake")>> ELSE <<>>)
    \o <<FLAKEREF>>

\* l.142-145
UpdateCommand ==
    [CommandBuilderDefault EXCEPT
        !.name = "update", !.root = elevation_required,
        !.args = update_args(Unwrap(nix_version))]

\* l.127-147
UpdateFlake ==
    /\ pc = "update"
    /\ \E ok \in ExecOutcomes(UpdateCommand) : Exec(UpdateCommand, ok, "build")
    /\ UNCHANGED <<req, is_root, flake_metadata, profile_metadata,
                   current_specialisation, confirmation,
                   use_sudo, elevation_required, out_path,
                   nix_version, conflict, target_specialisation,
                   target_profile, profile_exists, can_write>>

\* l.86-89, 155-161: nix build <flake_output> --out-link <out_path>
BuildCommand ==
    [CommandBuilderDefault EXCEPT
        !.name = "build",
        !.args = <<Word("nix"), Word("build"),
                   Join(FLAKEREF, "nixosConfigurations"),
                   Word("--out-link"), GetPath>>]

\* mutant of Build: the `?` after the build's exec() dropped
BuildUnchecked ==
    /\ pc = "build"
    /\ \E ok \in ExecOutcomes(BuildCommand) : ExecUnchecked(BuildCommand, ok, "specialisation")
    /\ UNCHANGED <<req, is_root, flake_metadata, profile_metadata,
                   current_specialisation, confirmation,
                   use_sudo, elevation_required, out_path,
                   nix_version, conflict, target_specialisation,
                   target_profile, profile_exists, can_write>>

\* l.155-163
Build ==
    /\ pc = "build"
    /\ \E ok \in ExecOutcomes(BuildCommand) : Exec(BuildCommand, ok, "specialisation")
    /\ UNCHANGED <<req, is_root, flake_metadata, profile_metadata,
                   current_specialisation, confirmation,
                   use_sudo, elevation_required, out_path,
                   nix_version, conflict, target_specialisation,
                   target_profile, profile_exists, can_write>>

\* l.167-171: None under no_specialisation, else the marker's content, else
\* the requested name
ResolveTarget(no_specialisation, current, requested) ==
    IF no_specialisation THEN None
    ELSE OrElse(current, requested)

\* l.175-178
TargetProfilePath(root, spec) ==
    IF IsSome(spec)
    THEN Join(Join(root, "specialisation"), Unwrap(spec))
    ELSE root

\* l.180: try_exists() answers Ok(true), Ok(false) or Err; `?` returns on Err
\* alone and the bool is discarded
ExistsCheckFails(ex) == ex = "Err"

\* what try_exists() can answer: the build's out link itself is there after a
\* successful build, a specialisation below it need not be
ExistsAnswers(spec) ==
    IF IsSome(spec) THEN {"yes", "no", "Err"} ELSE {"yes", "Err"}

\* l.165-180
ResolveSpecialisation ==
    /\ pc = "specialisation"
    /\ \E marker \in MarkerReads :
          LET spec == ResolveTarget(req.no_specialisation, marker,
                                    req.specialisation)
          IN  /\ current_specialisation' = marker
              /\ target_specialisation' = spec
              /\ target_profile' = TargetProfilePath(GetPath, spec)
              /\ \E ex \in ExistsAnswers(spec) :
                    /\ profile_exists' = ex
                    /\ IF ExistsCheckFails(ex)
                       THEN Return("ExistsErr")
                       ELSE /\ pc' = "diff"
                            /\ UNCHANGED <<result, tempdir>>
    /\ UNCHANGED <<req, is_root, flake_metadata, profile_metadata,
                   confirmation,
                   use_sudo, elevation_required, out_path,
                   nix_version, conflict, can_write, log>>

\* l.182-185
DiffCommand ==
    [CommandBuilderDefault EXCEPT
        !.name = "diff",
        !.args = <<Word("nvd"), Word("diff"), CURRENT_PROFILE, target_profile>>]

\* mutant of Diff: a failed diff is reported and the run goes on
DiffWarnOnly ==
    /\ pc = "diff"
    /\ \E ok \in ExecOutcomes(DiffCommand) : ExecUnchecked(DiffCommand, ok, "early_exit")
    /\ UNCHANGED <<req, is_root, flake_metadata, profile_metadata,
                   current_specialisation, confirmation,
                   use_sudo, elevation_required, out_path,
                   nix_version, conflict, target_specialisation,
                   target_profile, profile_exists, can_write>>

\* l.182-187
Diff ==
    /\ pc = "diff"
    /\ \E ok \in ExecOutcomes(DiffCommand) : Exec(DiffCommand, ok, "early_exit")
    /\ UNCHANGED <<req, is_root, flake_metadata, profile_metadata,
                   current_specialisation, confirmation,
                   use_sudo, elevation_required, out_path,
                   nix_version, conflict, target_specialisation,
                   target_profile, profile_exists, can_write>>

\* l.189
StopsBeforeActivation == req.dry \/ Matches(req.mode, {"Build"})

\* l.189-191
EarlyExit ==
    /\ pc = "early_exit"
    /\ IF StopsBeforeActivation
       THEN Return("Ok")
       ELSE /\ pc' = "confirm"
            /\ UNCHANGED <<result, tempdir>>
    /\ UNCHANGED <<req, is_root, flake_metadata, profile_metadata,
                   current_specialisation, confirmation,
                   use_sudo, elevation_required, out_path,
                   nix_version, conflict, target_specialisation,
                   target_profile, profile_exists, can_write, log>>

\* mutant of Declined: the answer is ignored
DeclinedNever(answer) == FALSE

\* l.197: the answer that ends the run
Declined(answer) == answer = "no"

\* l.193-200: Confirm::interact()? answers yes, no, or fails
Confirm ==
    /\ pc = "confirm"
    /\ IF req.ask
       THEN \E answer \in {"yes", "no", "Err"} :
               /\ confirmation' = answer
               /\ IF answer = "Err" THEN Return("ConfirmErr")
                  ELSE IF Declined(answer) THEN Return("Ok")
                  ELSE /\ pc' = "test"
                       /\ UNCHANGED <<result, tempdir>>
       ELSE /\ pc' = "test"
            /\ UNCHANGED <<confirmation, result, tempdir>>
    /\ UNCHANGED <<req, is_root, flake_metadata, profile_metadata,
                   current_specialisation,
                   use_sudo, elevation_required, out_path,
                   nix_version, conflict, target_specialisation,
                   target_profile, profile_exists, can_write, log>>

\* l.203
RunsTest == Matches(req.mode, {"Test", "Switch"})

\* l.205-212
TestCommand ==
    [CommandBuilderDefault EXCEPT
        !.name = "test", !.root = use_sudo,
        !.args = <<Join(Join(target_profile, "bin"), "switch-to-configuration"),
                   Word("test")>>]

\* mutant of ActivateTest: the `?` after the test command's exec() dropped
ActivateTestUnchecked ==
    /\ pc = "test"
    /\ IF RunsTest
       THEN \E ok \in ExecOutcomes(TestCommand) :
               /\ log' = Append(log, Logged(TestCommand, ok))
               /\ pc' = "profile"
               /\ UNCHANGED <<result, tempdir>>
       ELSE /\ pc' = "profile"
            /\ UNCHANGED <<log, result, tempdir>>
    /\ UNCHANGED <<req, is_root, flake_metadata, profile_metadata,
                   current_specialisation, confirmation,
                   use_sudo, elevation_required, out_path,
                   nix_version, conflict, target_specialisation,
                   target_profile, profile_exists, can_write>>

\* l.202-215
ActivateTest ==
    /\ pc = "test"
    /\ IF RunsTest
       THEN /\ \E ok \in ExecOutcomes(TestCommand) : Exec(TestCommand, ok, "profile")
       ELSE /\ pc' = "profile"
            /\ UNCHANGED <<log, result, tempdir>>
    /\ UNCHANGED <<req, is_root, flake_metadata, profile_metadata,
                   current_specialisation, confirmation,
                   use_sudo, elevation_required, out_path,
                   nix_version, conflict, target_specialisation,
                   target_profile, profile_exists, can_write>>

\* mutant of RunsBoot: Switch forgotten
RunsBootOnly == Matches(req.mode, {"Boot"})

\* l.217
RunsBoot == Matches(req.mode, {"Boot", "Switch"})

\* l.222-224
CanWrite(readonly, uid_matches, gid_matches) ==
    ~readonly /\ (uid_matches \/ gid_matches)

\* l.217-225, and l.274-277 when the mode has no boot phase
ProfileMetadata ==
    /\ pc = "profile"
    /\ IF RunsBoot
       THEN \/ /\ profile_metadata' = "Err"
               /\ Return("MetadataErr")
               /\ UNCHANGED can_write
            \/ \E readonly \in BOOLEAN, uid_matches \in BOOLEAN,
                  gid_matches \in BOOLEAN :
                  /\ profile_metadata' = "Ok"
                  /\ can_write' = CanWrite(readonly, uid_matches, gid_matches)
                  /\ pc' = "set_profile"
                  /\ UNCHANGED <<result, tempdir>>
       ELSE /\ Return("Ok")
            /\ UNCHANGED <<can_write, profile_metadata>>
    /\ UNCHANGED <<req, is_root, flake_metadata,
                   current_specialisation, confirmation,
                   use_sudo, elevation_required, out_path,
                   nix_version, conflict, target_specialisation,
                   target_profile, profile_exists, log>>

\* mutant of SetProfileCommand: the write check does not decide the elevation
SetProfileCommandAlwaysSudo ==
    [CommandBuilderDefault EXCEPT
        !.name = "set_profile", !.root = use_sudo,
        !.args = <<Word("nix-env"), Word("--profile"), SYSTEM_PROFILE,
                   Word("--set"), GetPath>>]

\* l.227-230
SetProfileCommand ==
    [CommandBuilderDefault EXCEPT
        !.name = "set_profile", !.root = use_sudo /\ ~can_write,
        !.args = <<Word("nix-env"), Word("--profile"), SYSTEM_PROFILE,
                   Word("--set"), GetPath>>]

\* mutant of SetProfile: the `?` after the pointer-set's exec() dropped
SetProfileUnchecked ==
    /\ pc = "set_profile"
    /\ \E ok \in ExecOutcomes(SetProfileCommand) : ExecUnchecked(SetProfileCommand, ok, "boot")
    /\ UNCHANGED <<req, is_root, flake_metadata, profile_metadata,
                   current_specialisation, confirmation,
                   use_sudo, elevation_required, out_path,
                   nix_version, conflict, target_specialisation,
                   target_profile, profile_exists, can_write>>

\* l.227-232
SetProfile ==
    /\ pc = "set_profile"
    /\ \E ok \in ExecOutcomes(SetProfileCommand) : Exec(SetProfileCommand, ok, "boot")
    /\ UNCHANGED <<req, is_root, flake_metadata, profile_metadata,
                   current_specialisation, confirmation,
                   use_sudo, elevation_required, out_path,
                   nix_version, conflict, target_specialisation,
                   target_profile, profile_exists, can_write>>

\* mutant of BootCommand: the boot phase runs the specialisation's script
BootCommandSpecialised ==
    [CommandBuilderDefault EXCEPT
        !.name = "boot", !.root = use_sudo,
        !.args = <<Join(Join(target_profile, "bin"), "switch-to-configuration"),
                   Word("boot")>>]

\* l.237-245
BootCommand ==
    [CommandBuilderDefault EXCEPT
        !.name = "boot", !.root = use_sudo,
        !.args = <<Join(Join(GetPath, "bin"), "switch-to-configuration"),
                   Word("boot")>>]

\* l.235-249, then l.274-277
ActivateBoot ==
    /\ pc = "boot"
    /\ \E ok \in ExecOutcomes(BootCommand) :
          /\ log' = Append(log, Logged(BootCommand, ok))
          /\ IF ok THEN Return("Ok") ELSE Return("CommandFailure")
    /\ UNCHANGED <<req, is_root, flake_metadata, profile_metadata,
                   current_specialisation, confirmation,
                   use_sudo, elevation_required, out_path,
                   nix_version, conflict, target_specialisation,
                   target_profile, profile_exists, can_write>>

Next ==
    \/ RootCheck
    \/ ResolveHostname
    \/ AllocOutPath
    \/ CheckFlakeOwner
    \/ Pull
    \/ GetNixVersion
    \/ CheckConflicts
    \/ ResetLock
    \/ CheckoutLock
    \/ UpdateFlake
    \/ Build
    \/ ResolveSpecialisation
    \/ Diff
    \/ EarlyExit
    \/ Confirm
    \/ ActivateTest
    \/ ProfileMetadata
    \/ SetProfile
    \/ ActivateBoot

Spec == Init /\ [][Next]_vars

----------------------------------------------------------------------------
(* Properties *)

Idx == 1 .. Len(log)
Issued(n) == \E i \in Idx : log[i].name = n
Count(n) == Cardinality({i \in Idx : log[i].name = n})
\* the place of the (only) command named n in the log
PosOf(n) == CHOOSE i \in Idx : log[i].name = n

\* test-activation, profile-pointer-set, boot-persistence
Activation == {"test", "set_profile", "boot"}
NoActivation == \A i \in Idx : log[i].name \notin Activation

\* C1: in mode Build no activation command is ever issued, whatever the other
\* flags and the outcomes of the commands.
C1_BuildNeverActivates == req.mode = "Build" => NoActivation

C1_Witness ==
    /\ req.mode = "Build" /\ ~req.dry /\ req.ask
    /\ pc = "done" /\ result = "Ok" /\ Issued("diff")

\* C2: with dry set no external process is spawned at any step; every command
\* is only logged.
C2_DryNeverSpawns == req.dry => \A i \in Idx : ~log[i].spawned

\* C3: root without bypass_root_check ends in PolicyViolation with no command
\* issued and no temporary directory allocated, in every state of the run.
C3_RootRefusedBeforeAnything ==
    (is_root /\ ~req.bypass_root_check) =>
        /\ log = <<>>
        /\ tempdir = "none" /\ out_path = "unset"
        /\ pc \in {"root_check", "done"}
        /\ pc = "done" => result = "PolicyViolation"

C3_Witness ==
    /\ is_root /\ ~req.bypass_root_check
    /\ pc = "done" /\ result = "PolicyViolation"

\* C4: in mode Switch the profile-pointer-set and boot-persistence commands
\* come only after a test-activation that succeeded; after a failed
\* test-activation neither is ever issued.
C4_TestBeforeBoot ==
    req.mode = "Switch" =>
        /\ \A i \in Idx :
              log[i].name \in {"set_profile", "boot"} =>
                  \E j \in 1 .. (i - 1) : log[j].name = "test" /\ log[j].ok
        /\ (\E j \in Idx : log[j].name = "test" /\ ~log[j].ok) =>
              ~Issued("set_profile") /\ ~Issued("boot")

C4_Witness ==
    /\ req.mode = "Switch" /\ pc = "done"
    /\ \E j \in Idx : log[j].name = "test" /\ ~log[j].ok

\* a finished run that got past the diff, was not dry or Build and was not
\* declined: it reached the activation phase
ReachedActivation ==
    /\ pc = "done"
    /\ ~req.dry /\ req.mode # "Build"
    /\ confirmation \in {"unasked", "yes"}
    /\ \E i \in Idx : log[i].name = "diff" /\ log[i].ok

AllSucceeded == \A i \in Idx : log[i].ok

PhaseCounts ==
    /\ req.mode = "Test" =>
          Count("test") = 1 /\ Count("set_profile") = 0 /\ Count("boot") = 0
    /\ req.mode = "Boot" =>
          Count("test") = 0 /\ Count("set_profile") = 1 /\ Count("boot") = 1
    /\ req.mode = "Switch" =>
          Count("test") = 1 /\ Count("set_profile") = 1 /\ Count("boot") = 1

\* C5 as stated: a run that reaches the activation phase and whose commands
\* all succeed issues, by mode, Test: one test-activation only; Boot: one
\* pointer-set and one boot-persistence, no test-activation; Switch: one of
\* each.
C5_ModePhasesOriginal == (ReachedActivation /\ AllSucceeded) => PhaseCounts

\* C5 as amended: the same, for the runs in which the read of the system
\* profile's metadata (l.218-219) did not fail either.
C5_ModePhases ==
    (ReachedActivation /\ AllSucceeded /\ result # "MetadataErr") => PhaseCounts

C5_Witness ==
    /\ ReachedActivation /\ AllSucceeded
    /\ req.mode = "Switch" /\ result = "Ok" /\ Count("boot") = 1

\* C6: a resolved target profile that does not exist is fatal: the run ends in
\* an error and neither the diff nor an activation command is issued.
C6_MissingProfileFatal ==
    profile_exists = "no" =>
        /\ pc = "done" /\ result \notin {"running", "Ok"}
        /\ ~Issued("diff") /\ NoActivation

\* C7: the conflict inspection precedes the lock refresh; an empty listing
\* goes on to the lock refresh with no reset or checkout; the listing that is
\* exactly flake.lock is followed by reset, checkout, lock refresh in that
\* order; any other listing is a hard stop with nothing issued after it.
C7_ConflictNarrowing ==
    /\ \A i \in Idx :
          log[i].name = "update" =>
              \E j \in 1 .. (i - 1) : log[j].name = "conflicts" /\ log[j].ok
    /\ IsSome(conflict) =>
          LET p == PosOf("conflicts")
              n == Len(log)
              listing == Unwrap(conflict)
          IN  /\ Issued("conflicts") /\ req.update
              /\ listing = <<>> =>
                    /\ ~Issued("reset") /\ ~Issued("checkout")
                    /\ n = p => pc = "update"
                    /\ n > p => log[p + 1].name = "update"
              /\ listing = <<LOCK_FILE>> =>
                    /\ n = p => pc = "reset"
                    /\ n > p => log[p + 1].name = "reset"
                    /\ n > p + 1 => log[p + 2].name = "checkout"
                    /\ (n = p + 2 /\ log[p + 1].ok /\ log[p + 2].ok) =>
                          pc = "update"
                    /\ n > p + 2 => log[p + 3].name = "update"
              /\ listing \notin {<<>>, <<LOCK_FILE>>} =>
                    /\ pc = "done" /\ result = "ConflictPanic"
                    /\ n = p

C7_Witness ==
    /\ conflict = Some(<<LOCK_FILE, OTHER_FILE>>)
    /\ result = "ConflictPanic" /\ req.pull

\* C8: a declined confirmation ends the run successfully, with no activation
\* command and nothing issued after the diff (no step is undone).
C8_DeclineIsCleanStop ==
    (req.ask /\ confirmation = "no") =>
        /\ pc = "done" /\ result = "Ok"
        /\ NoActivation
        /\ log[Len(log)].name = "diff"

C8_Witness ==
    /\ req.ask /\ confirmation = "no" /\ req.mode = "Switch"
    /\ Issued("update") /\ Issued("build")

\* C9: the temporary directory of an ephemeral build output is released on
\* every exit that follows its allocation and never while rebuild() can still
\* issue a command; with an out link there is no directory to remove.
C9_TempdirReleased ==
    /\ (out_path = "temp" /\ pc = "done") => tempdir = "released"
    /\ (out_path = "temp" /\ pc # "done") => tempdir = "held"
    /\ tempdir = "released" => pc = "done" /\ out_path = "temp"
    /\ req.out_link => tempdir = "none"

C9_Witness ==
    /\ ~req.out_link /\ tempdir = "released"
    /\ result = "CommandFailure" /\ log[Len(log)].name = "boot"

\* the resolution C10 describes: an empty marker counts as no marker
SpecifiedTarget(no_specialisation, current, requested) ==
    IF no_specialisation THEN None
    ELSE IF IsSome(current) /\ Unwrap(current) # "" THEN current
    ELSE requested

\* C10: the target specialisation is none under no_specialisation, else the
\* name in /etc/specialisation, else (read failed or empty) the requested one.
C10_ResolvedSpecialisation ==
    profile_exists # "unknown" =>
        target_specialisation =
            SpecifiedTarget(req.no_specialisation, current_specialisation,
                            req.specialisation)

\* the activation script below a configuration root
SwitchScript(root) == root \o <<"bin", "switch-to-configuration">>

\* R/specialisation/s for a resolved s, R for none
SpecialisedRoot ==
    IF target_specialisation = None THEN GetPath
    ELSE GetPath \o <<"specialisation", target_specialisation[1]>>

\* C11: the test-activation runs switch-to-configuration below the
\* specialisation-aware target profile, the profile-pointer-set and the
\* boot-persistence commands use the base path R whatever was resolved.
C11_ActivationPaths ==
    \A i \in Idx :
        /\ log[i].name = "test" =>
              log[i].args = <<SwitchScript(SpecialisedRoot), <<"test">>>>
        /\ log[i].name = "set_profile" =>
              log[i].args[Len(log[i].args)] = GetPath
        /\ log[i].name = "boot" =>
              log[i].args = <<SwitchScript(GetPath), <<"boot">>>>

C11_Witness ==
    /\ req.mode = "Switch" /\ target_specialisation = Some("cur")
    /\ Issued("test") /\ Issued("set_profile") /\ Issued("boot")

\* C12: with use_sudo = invoker is not root, pull and lock refresh are
\* elevated exactly when use_sudo and the source is owned by root (unreadable
\* metadata counts as not owned by root); test-activation and
\* boot-persistence are elevated exactly when use_sudo.
C12_Elevation ==
    /\ pc \notin {"root_check", "done"} => use_sudo = ~is_root
    /\ \A i \in Idx :
          /\ log[i].name \in {"pull", "update"} =>
                log[i].root = (~is_root /\ flake_metadata = "root")
          /\ log[i].name \in {"test", "boot"} => log[i].root = ~is_root

C12_Witness ==
    /\ ~is_root /\ flake_metadata = "Err"
    /\ Issued("pull") /\ Issued("update") /\ Issued("test") /\ Issued("boot")

\* whether the words of a command hold the flag f
HasFlag(args, f) == \E k \in 1 .. Len(args) : args[k] = <<f>>

\* semantic-version order: a at or above b
AtLeast(a, b) ==
    \/ a[1] > b[1]
    \/ a[1] = b[1] /\ a[2] > b[2]
    \/ a[1] = b[1] /\ a[2] = b[2] /\ a[3] >= b[3]

\* C13: the lock refresh omits --flake below version 2.19.0 and carries it at
\* or above 2.19.0, 2.19.0 itself included.
C13_FlakeFlagByVersion ==
    \A i \in Idx :
        (log[i].name = "update" /\ nix_version[1].parses) =>
            (HasFlag(log[i].args, "--flake")
                <=> AtLeast(nix_version[1].v, <<2, 19, 0>>))

\* the command named n was issued and succeeded before place i of the log
OkBefore(n, i) == \E j \in 1 .. (i - 1) : log[j].name = n /\ log[j].ok

\* C14: the build completes before the diff, the diff before the
\* confirmation prompt, the prompt (when ask is set) before any activation;
\* no activation is issued without a successful build and a successful diff.
C14_BuildDiffConfirmActivate ==
    /\ \A i \in Idx :
          /\ log[i].name = "diff" => OkBefore("build", i)
          /\ log[i].name \in Activation =>
                /\ OkBefore("build", i) /\ OkBefore("diff", i)
                /\ PosOf("build") < PosOf("diff")
                /\ req.ask => confirmation = "yes"
    /\ confirmation # "unasked" =>
          /\ req.ask
          /\ OkBefore("diff", Len(log) + 1)
          /\ confirmation # "yes" => NoActivation
    /\ pc = "confirm" => NoActivation /\ log[Len(log)].name = "diff"

C14_Witness ==
    /\ req.ask /\ confirmation = "yes" /\ req.mode = "Test"
    /\ Issued("test") /\ pc = "done"

\* the commands rebuild() can issue
Commands ==
    {"pull", "conflicts", "reset", "checkout", "update", "build", "diff",
     "test", "set_profile", "boot"}

\* C15: a failed command ends the run in an error at that step: nothing is
\* issued after it (no retry, no rollback), and no command is issued twice.
C15_FailureStopsTheRun ==
    /\ \A i \in Idx :
          ~log[i].ok =>
              /\ i = Len(log)
              /\ pc = "done" /\ result = "CommandFailure"
    /\ \A n \in Commands : Count(n) <= 1
    /\ \A i \in Idx : log[i].name \in Commands

C15_Witness ==
    /\ pc = "done" /\ result = "CommandFailure"
    /\ log[Len(log)].name = "diff" /\ ~log[Len(log)].ok
    /\ req.mode = "Switch" /\ ~req.dry

\* C16: with update requested, a build-engine version that cannot be
\* determined or cannot be compared with the threshold stops the run: no lock
\* refresh, no build, no activation.
C16_UnknownVersionFatal ==
    (req.update /\
     \/ result = "ToolchainPanic"
     \/ IsSome(nix_version) /\ compare_semver(nix_version[1], THRESHOLD) = "Err")
    => ~Issued("update") /\ ~Issued("build") /\ NoActivation

\* C17 as stated: the profile-pointer-set command is elevated whenever
\* use_sudo is set, whatever the write check found.
C17_PointerSetElevatedOriginal ==
    \A i \in Idx : log[i].name = "set_profile" => log[i].root = use_sudo

\* C17 as amended: the profile-pointer-set command is elevated exactly when
\* use_sudo is set and the write check found the profile not writable.
C17_PointerSetElevated ==
    \A i \in Idx :
        log[i].name = "set_profile" =>
            /\ profile_metadata = "Ok"
            /\ log[i].root = (use_sudo /\ ~can_write)

C17_Witness ==
    /\ use_sudo /\ can_write
    /\ \E i \in Idx : log[i].name = "set_profile" /\ ~log[i].root

\* the commands that update the source
SourceCommands == {"pull", "conflicts", "reset", "checkout", "update"}

\* the command named a is in the log before the command named b
Precedes(a, b) == Issued(a) /\ Issued(b) /\ PosOf(a) < PosOf(b)

\* C18: source-updating commands are issued only when requested and only
\* before the build; pull precedes the build, the conflict inspection the
\* lock refresh and the lock refresh the build, pull the conflict inspection.
C18_SourceUpdateOrder ==
    /\ ~req.pull => ~Issued("pull")
    /\ ~req.update => \A i \in Idx : log[i].name \in {"pull"} \cup (Commands \ SourceCommands)
    /\ \A i \in Idx :
          log[i].name \in SourceCommands =>
              \A j \in 1 .. (i - 1) : log[j].name \in SourceCommands
    /\ Issued("build") =>
          /\ req.pull => Precedes("pull", "build")
          /\ req.update => Precedes("conflicts", "update")
                           /\ Precedes("update", "build")
    /\ (req.pull /\ Issued("conflicts")) => Precedes("pull", "conflicts")

C18_Witness ==
    /\ req.pull /\ req.update /\ Issued("build")
    /\ conflict = Some(<<LOCK_FILE>>)

\* C19: when the invoker is root no command is elevated; the conflict check,
\* reset, checkout, build and diff are never elevated.
C19_RootNeverElevates ==
    /\ is_root => \A i \in Idx : ~log[i].root
    /\ \A i \in Idx :
          log[i].name \in {"conflicts", "reset", "checkout", "build", "diff"}
              => ~log[i].root

C19_Witness ==
    /\ is_root /\ req.bypass_root_check
    /\ flake_metadata = "root" /\ ~can_write
    /\ Issued("pull") /\ Issued("update") /\ Issued("test") /\ Issued("boot")

\* C20: in the boot phase the metadata read precedes the pointer-set, which
\* precedes the boot-persistence command; a failed metadata read leaves both
\* unissued, a failed pointer-set leaves the boot command unissued, and after
\* a failed boot command nothing is issued: the pointer-set (and in Switch
\* the test activation) stand.
C20_BootPhaseOrder ==
    /\ profile_metadata # "unread" => Matches(req.mode, {"Boot", "Switch"})
    /\ profile_metadata = "Err" =>
          /\ ~Issued("set_profile") /\ ~Issued("boot")
          /\ pc = "done" /\ result = "MetadataErr"
    /\ \A i \in Idx :
          /\ log[i].name = "set_profile" => profile_metadata = "Ok"
          /\ log[i].name = "boot" => OkBefore("set_profile", i)
          /\ (log[i].name = "set_profile" /\ ~log[i].ok) => ~Issued("boot")
          /\ (log[i].name = "boot" /\ ~log[i].ok) =>
                /\ i = Len(log) /\ pc = "done"
                /\ log[i - 1].name = "set_profile" /\ log[i - 1].ok
                /\ req.mode = "Switch" =>
                      log[i - 2].name = "test" /\ log[i - 2].ok

C20_Witness ==
    /\ req.mode = "Switch" /\ pc = "done"
    /\ \E i \in Idx : log[i].name = "boot" /\ ~log[i].ok
====
